---- MODULE Spec2Model ----
(***************************************************************************)
(* Model of llm-fallback: the ordered fallback engine                      *)
(* (SimpleLLMHandler.process / _call_model in llm_handler.py), the model   *)
(* registry (available_models.py) and the request value with its           *)
(* dict / JSON conversions (event_payload.py).                             *)
(*                                                                         *)
(* Python values that may be None are modelled as sequences of length at   *)
(* most one: None is <<>>, a present value v is <<v>>.  Text that the code *)
(* builds by formatting (f-strings) is a sequence of its pieces, so that   *)
(* concatenation is \o and '' is <<>>.                                     *)
(***************************************************************************)
EXTENDS Integers, Sequences, FiniteSets, TLC

VARIABLES
    pc,          \* per call: "idle", "loop", "called", "returned", "raised"
    payload,     \* per call: the EventPayload handed to process
    i,           \* per call: the index of enumerate(payload.models), 0-based
    attempts,    \* per call: the local list `attempts`
    result,      \* per call: the dict returned by the last _call_model
    response,    \* per call: the SimpleResponse returned (None before)
    exception,   \* per call: the exception that left process (None if none)
    adapterLog,  \* per call: the completion() calls made, with their outcome
    stage,       \* payload life cycle: position of the conversion script
    made_by,     \* payload life cycle: the operation that built `obj`
    obj,         \* payload life cycle: the EventPayload that exists (or None)
    wire,        \* payload life cycle: the dict or JSON text in hand (or None)
    back,        \* payload life cycle: what from_dict / from_json gave (or None)
    props,       \* payload life cycle: primary_model / fallback_models as read (or None)
    registry,    \* the module-level dicts AVAILABLE_MODELS and MODEL_NAMES
    lookups,     \* the get_model_id / get_model_name calls made, with their results
    gpc,         \* generate_response: "idle", "anthropic", "except", "bedrock",
                 \*   "returned", "raised"
    gargs,       \* generate_response: its arguments prompt and max_tokens
    gcalls,      \* generate_response: the service calls made, with their outcome
    gerror,      \* generate_response: anthropic_error (None if none caught)
    gnote,       \* generate_response: which of the two "switching" lines was logged
    gresult,     \* generate_response: the ClaudeResponse returned or the exception raised
    lists,       \* the list objects behind the models fields of the example payloads
    examples,    \* the module-level dict EXAMPLE_PAYLOADS
    handed,      \* the get_example_payload calls made: what each returned or raised
    changes      \* the changes callers made to the models of a returned payload

vars == <<pc, payload, i, attempts, result, response, exception, adapterLog,
          stage, made_by, obj, wire, back, props, registry, lookups,
          gpc, gargs, gcalls, gerror, gnote, gresult,
          lists, examples, handed, changes>>

engineVars == <<pc, payload, i, attempts, result, response, exception, adapterLog>>
payloadVars == <<stage, made_by, obj, wire, back, props>>
registryVars == <<registry, lookups>>
bedrockVars == <<gpc, gargs, gcalls, gerror, gnote, gresult>>
exampleVars == <<lists, examples, handed, changes>>

\* what a step of process, of the payload operations, of the registry, of
\* generate_response and of the example payloads leaves alone
notEngineVars == <<payloadVars, registryVars, bedrockVars, exampleVars>>
notPayloadVars == <<engineVars, registryVars, bedrockVars, exampleVars>>
notRegistryVars == <<engineVars, payloadVars, bedrockVars, exampleVars>>
notBedrockVars == <<engineVars, payloadVars, registryVars, exampleVars>>
notExampleVars == <<engineVars, payloadVars, registryVars, bedrockVars>>

----------------------------------------------------------------------------
(* Bounds *)

\* longest models list of a payload handed to a single process call
MaxModels == 3
\* longest models list when process calls are interleaved
MaxConcModels == 2
\* longest models list of a payload that is built or converted
MaxPayloadModels == 2

\* the process calls in flight: two threads on one handler
Calls == {1, 2}

----------------------------------------------------------------------------
(* Python values *)

None == <<>>
Some(v) == <<v>>

Return(v) == [raised |-> FALSE, value |-> v]
Raise(type, msg) == [raised |-> TRUE, type |-> type, msg |-> msg]

\* d.get(k, default)
DictGet(d, k, default) == IF k \in DOMAIN d THEN d[k] ELSE default

----------------------------------------------------------------------------
(* available_models.py *)

AVAILABLE_MODELS ==
    ( "claude-3-5-sonnet" :> "claude-3-5-sonnet-20241022"
   @@ "claude-3-haiku" :> "claude-3-haiku-20240307"
   @@ "gpt-4o" :> "gpt-4o"
   @@ "gpt-4o-mini" :> "gpt-4o-mini"
   @@ "gpt-4-turbo" :> "gpt-4-turbo"
   @@ "claude-3-5-sonnet-bedrock" :> "bedrock/us.anthropic.claude-3-5-sonnet-20241022-v2:0"
   @@ "claude-3-haiku-bedrock" :> "bedrock/anthropic.claude-3-haiku-20240307-v1:0"
   @@ "cohere-command-r-plus" :> "cohere/command-r-plus"
   @@ "gemini-1-5-pro" :> "gemini/gemini-1.5-pro" )

MODEL_NAMES ==
    ( "claude-3-5-sonnet" :> "Claude 3.5 Sonnet (Direct)"
   @@ "claude-3-haiku" :> "Claude 3 Haiku (Direct)"
   @@ "gpt-4o" :> "GPT-4o"
   @@ "gpt-4o-mini" :> "GPT-4o Mini"
   @@ "gpt-4-turbo" :> "GPT-4 Turbo"
   @@ "claude-3-5-sonnet-bedrock" :> "Claude 3.5 Sonnet (Bedrock)"
   @@ "claude-3-haiku-bedrock" :> "Claude 3 Haiku (Bedrock)"
   @@ "cohere-command-r-plus" :> "Cohere Command R+"
   @@ "gemini-1-5-pro" :> "Gemini 1.5 Pro" )

\* list(AVAILABLE_MODELS.keys()): the keys in the order they are written
AvailableKeys ==
    <<"claude-3-5-sonnet", "claude-3-haiku", "gpt-4o", "gpt-4o-mini", "gpt-4-turbo",
      "claude-3-5-sonnet-bedrock", "claude-3-haiku-bedrock",
      "cohere-command-r-plus", "gemini-1-5-pro">>

get_model_id_lenient(model_key) ==
    IF model_key \notin DOMAIN AVAILABLE_MODELS
    THEN Return(model_key)
    ELSE Return(AVAILABLE_MODELS[model_key])
get_model_id(model_key) ==
    IF model_key \notin DOMAIN AVAILABLE_MODELS
    THEN Raise("ValueError",
               <<"Unknown model: ", model_key, ". Available: ">> \o AvailableKeys)
    ELSE Return(AVAILABLE_MODELS[model_key])

get_model_name_or_unknown(model_key) == DictGet(MODEL_NAMES, model_key, "Unknown")
get_model_name(model_key) == DictGet(MODEL_NAMES, model_key, model_key)

----------------------------------------------------------------------------
(* event_payload.py: the dataclass *)

DEFAULT_MAX_TOKENS == 4000
\* temperatures are counted in tenths: 7 is 0.7
DEFAULT_TEMPERATURE == 7

\* the generated __init__: stores its arguments, validates nothing
EventPayload(prompt, models, max_tokens, temperature, request_id) ==
    [prompt |-> prompt, models |-> models, max_tokens |-> max_tokens,
     temperature |-> temperature, request_id |-> request_id]

FieldNames == {"prompt", "models", "max_tokens", "temperature", "request_id"}

\* Python objects as a dict or json sees them: a value with its run-time type.
\* A float is counted in tenths, like the temperature.
PyStr(x) == [t |-> "str", s |-> x]
PyInt(n) == [t |-> "int", n |-> n]
PyFloat(f) == [t |-> "float", f |-> f]
PyNone == [t |-> "none"]
PyList(items) == [t |-> "list", items |-> items]

PyOptStr(o) == IF o = None THEN PyNone ELSE PyStr(o[1])
OptStr(v) == IF v.t = "none" THEN None ELSE Some(v.s)
StrList(v) == [k \in DOMAIN v.items |-> v.items[k].s]

\* to_dict
to_dict_without_request_id(self) ==
    [prompt |-> PyStr(self.prompt),
     models |-> PyList([k \in DOMAIN self.models |-> PyStr(self.models[k])]),
     max_tokens |-> PyInt(self.max_tokens),
     temperature |-> PyFloat(self.temperature)]
to_dict(self) ==
    [prompt |-> PyStr(self.prompt),
     models |-> PyList([k \in DOMAIN self.models |-> PyStr(self.models[k])]),
     max_tokens |-> PyInt(self.max_tokens),
     temperature |-> PyFloat(self.temperature),
     request_id |-> PyOptStr(self.request_id)]

\* from_dict: cls(**data).  The generated __init__ rejects a keyword that is
\* no field and a missing prompt or models; the other fields have defaults.
from_dict(data) ==
    IF DOMAIN data \ FieldNames # {}
    THEN Raise("TypeError", <<"unexpected keyword argument">>)
    ELSE IF {"prompt", "models"} \ DOMAIN data # {}
    THEN Raise("TypeError", <<"missing required positional argument">>)
    ELSE Return(EventPayload(
            data["prompt"].s,
            StrList(data["models"]),
            IF "max_tokens" \in DOMAIN data
                THEN data["max_tokens"].n ELSE DEFAULT_MAX_TOKENS,
            IF "temperature" \in DOMAIN data
                THEN data["temperature"].f ELSE DEFAULT_TEMPERATURE,
            IF "request_id" \in DOMAIN data
                THEN OptStr(data["request_id"]) ELSE None))

\* JSON text is a sequence of tokens: punctuation, string literals, number
\* literals (with a fraction digit when the value is a float) and null.
Punct(ch) == [t |-> "punct", s |-> ch]
JString(x) == [t |-> "string", s |-> x]
JInt(n) == [t |-> "number", int |-> n]
JFrac(whole, tenth) == [t |-> "number", int |-> whole, frac |-> tenth]
JNull == [t |-> "null"]

IsPunct(tok, ch) == tok.t = "punct" /\ tok.s = ch

\* the order in which the keys of a dict are written
KeyOrder == <<"prompt", "models", "max_tokens", "temperature", "request_id", "extra">>

\* json.dumps of a scalar
ScalarToken(v) ==
    CASE v.t = "str" -> JString(v.s)
      [] v.t = "int" -> JInt(v.n)
      [] v.t = "float" -> JFrac(v.f \div 10, v.f % 10)
      [] v.t = "none" -> JNull

RECURSIVE ItemTokens(_)
ItemTokens(items) ==
    IF items = <<>> THEN <<>>
    ELSE IF Len(items) = 1 THEN <<ScalarToken(items[1])>>
    ELSE <<ScalarToken(items[1]), Punct(",")>> \o ItemTokens(Tail(items))

ValueTokens(v) ==
    IF v.t = "list" THEN <<Punct("[")>> \o ItemTokens(v.items) \o <<Punct("]")>>
    ELSE <<ScalarToken(v)>>

RECURSIVE MemberTokens(_, _)
MemberTokens(d, keys) ==
    IF keys = <<>> THEN <<>>
    ELSE <<JString(keys[1]), Punct(":")>> \o ValueTokens(d[keys[1]])
            \o (IF Len(keys) = 1 THEN <<>> ELSE <<Punct(",")>>)
            \o MemberTokens(d, Tail(keys))

\* json.dumps(d, indent=2); white space is not modelled
json_dumps(d) ==
    <<Punct("{")>>
        \o MemberTokens(d, SelectSeq(KeyOrder, LAMBDA k : k \in DOMAIN d))
        \o <<Punct("}")>>

\* json.loads of a scalar literal
ScalarValue(tok) ==
    CASE tok.t = "string" -> PyStr(tok.s)
      [] tok.t = "number" ->
            IF "frac" \in DOMAIN tok THEN PyFloat(tok.int * 10 + tok.frac)
            ELSE PyInt(tok.int)
      [] tok.t = "null" -> PyNone

\* the items of an array, from its first item (or its "]") on
RECURSIVE ParseItems(_, _)
ParseItems(text, pos) ==
    IF IsPunct(text[pos], "]") THEN [items |-> <<>>, next |-> pos + 1]
    ELSE IF IsPunct(text[pos + 1], ",")
    THEN LET r == ParseItems(text, pos + 2)
         IN  [items |-> <<ScalarValue(text[pos])>> \o r.items, next |-> r.next]
    ELSE [items |-> <<ScalarValue(text[pos])>>, next |-> pos + 2]

ParseValue(text, pos) ==
    IF IsPunct(text[pos], "[")
    THEN LET r == ParseItems(text, pos + 1)
         IN  [value |-> PyList(r.items), next |-> r.next]
    ELSE [value |-> ScalarValue(text[pos]), next |-> pos + 1]

\* the members of an object, from its first key (or its "}") on; of two
\* members with one key the later wins
RECURSIVE ParseMembers(_, _)
ParseMembers(text, pos) ==
    IF IsPunct(text[pos], "}") THEN [k \in {} |-> PyNone]
    ELSE LET v == ParseValue(text, pos + 2)
             rest == IF IsPunct(text[v.next], ",")
                     THEN ParseMembers(text, v.next + 1)
                     ELSE [k \in {} |-> PyNone]
         IN  rest @@ (text[pos].s :> v.value)

\* json.loads: a text that is cut off raises JSONDecodeError
json_loads(text) ==
    IF Len(text) < 2 \/ ~IsPunct(text[1], "{") \/ ~IsPunct(text[Len(text)], "}")
    THEN Raise("JSONDecodeError", <<"Expecting value">>)
    ELSE Return(ParseMembers(text, 2))

\* to_json
to_json(self) == json_dumps(to_dict(self))

\* from_json
from_json(json_str) ==
    LET data == json_loads(json_str)
    IN  IF data.raised THEN data ELSE from_dict(data.value)

\* create_payload: EventPayload(prompt=prompt, models=models, **kwargs)
create_payload(prompt, models, kwargs) ==
    EventPayload(prompt, models,
                 DictGet(kwargs, "max_tokens", DEFAULT_MAX_TOKENS),
                 DictGet(kwargs, "temperature", DEFAULT_TEMPERATURE),
                 DictGet(kwargs, "request_id", None))

\* EXAMPLE_PAYLOADS as the source file writes it: each entry is an EventPayload
\* built with its own list literal and the default max_tokens and temperature
EXAMPLE_PAYLOADS ==
    [1p_to_3p |->
        EventPayload("What is cloud computing",
                     <<"claude-3-haiku-bedrock", "claude-3-5-sonnet">>,
                     DEFAULT_MAX_TOKENS, DEFAULT_TEMPERATURE, None),
     quality_first |->
        EventPayload("Your prompt here",
                     <<"claude-3-5-sonnet", "gpt-4o",
                       "claude-3-5-sonnet-bedrock", "gpt-4o-mini">>,
                     DEFAULT_MAX_TOKENS, DEFAULT_TEMPERATURE, None),
     speed_first |->
        EventPayload("Your prompt here",
                     <<"claude-3-haiku", "gpt-4o-mini",
                       "claude-3-haiku-bedrock", "claude-3-5-sonnet">>,
                     DEFAULT_MAX_TOKENS, DEFAULT_TEMPERATURE, None),
     cost_first |->
        EventPayload("Your prompt here",
                     <<"gpt-4o-mini", "claude-3-haiku",
                       "claude-3-haiku-bedrock", "gpt-4o">>,
                     DEFAULT_MAX_TOKENS, DEFAULT_TEMPERATURE, None),
     anthropic_only |->
        EventPayload("Your prompt here",
                     <<"claude-3-5-sonnet", "claude-3-haiku",
                       "claude-3-5-sonnet-bedrock", "claude-3-haiku-bedrock">>,
                     DEFAULT_MAX_TOKENS, DEFAULT_TEMPERATURE, None),
     openai_only |->
        EventPayload("Your prompt here",
                     <<"gpt-4o", "gpt-4o-mini", "gpt-4-turbo">>,
                     DEFAULT_MAX_TOKENS, DEFAULT_TEMPERATURE, None)]

\* list(EXAMPLE_PAYLOADS.keys()), in the order of the dict literal
StrategyNames ==
    <<"1p_to_3p", "quality_first", "speed_first", "cost_first",
      "anthropic_only", "openai_only">>

\* A list is an object: a models field holds a reference to it, and the items
\* are found in `lists` at that reference.  The list literal of the catalog
\* entry `strategy` is the object ListAt(strategy).
ListAt(strategy) == [list |-> strategy]

\* the objects that exist once the module is loaded
LoadedLists == [s \in DOMAIN EXAMPLE_PAYLOADS |-> EXAMPLE_PAYLOADS[s].models]
LoadedExamples ==
    [s \in DOMAIN EXAMPLE_PAYLOADS |->
        [EXAMPLE_PAYLOADS[s] EXCEPT !.models = ListAt(s)]]

\* get_example_payload(strategy, prompt), given the catalog `ex`: the new
\* EventPayload receives example.models, the reference held by the entry
get_example_payload(strategy, prompt, ex) ==
    IF strategy \notin DOMAIN ex
    THEN Raise("ValueError",
               <<"Unknown strategy: ", strategy, ". Available: ">> \o StrategyNames)
    ELSE LET example == ex[strategy]
         IN  Return(EventPayload(prompt, example.models, example.max_tokens,
                                 example.temperature, None))

\* payload.models.append(key) and payload.models.pop() on the list object `ref`
list_append(ls, ref, key) == [ls EXCEPT ![ref.list] = Append(@, key)]
list_pop(ls, ref) == [ls EXCEPT ![ref.list] = SubSeq(@, 1, Len(@) - 1)]

\* self.models[0]: IndexError on an empty list
primary_model_last(self) ==
    IF Len(self.models) = 0 THEN Raise("IndexError", <<"list index out of range">>)
    ELSE Return(self.models[Len(self.models)])
primary_model(self) ==
    IF Len(self.models) = 0 THEN Raise("IndexError", <<"list index out of range">>)
    ELSE Return(self.models[1])

\* xs[1:]
SliceFrom1(xs) == [k \in 1..(Len(xs) - 1) |-> xs[k + 1]]

\* self.models[1:] if len(self.models) > 1 else []
fallback_models_whole(self) == IF Len(self.models) > 1 THEN self.models ELSE <<>>
fallback_models(self) == IF Len(self.models) > 1 THEN SliceFrom1(self.models) ELSE <<>>

----------------------------------------------------------------------------
(* llm_handler.py *)

\* SimpleResponse(...): the dataclass with its seven fields
SimpleResponse(success, content, model_used, cost, usage, error, atts) ==
    [success |-> success, content |-> content, model_used |-> model_used,
     cost |-> cost, usage |-> usage, error |-> error, attempts |-> atts]

\* What one run of the try block of _call_model can meet: completion() and the
\* extraction of content and usage go through (cost is None when
\* completion_cost raised), or something in the block raises an exception
\* whose str() is msg.
Contents == {"OK", "Hi"}
Usages == {"usage-a"}
Costs == {None, Some(2)}
Msgs == {<<"429 Too Many Requests">>, <<"timeout">>, <<>>}

AdapterOutcomes ==
    [ok : {TRUE}, content : Contents, usage : Usages, cost : Costs]
        \cup [ok : {FALSE}, msg : Msgs]

\* f"{model_name} failed: {str(e)}"
error_msg_no_detail(model_name, e) == <<model_name, " failed: ">>
error_msg(model_name, e) == <<model_name, " failed: ">> \o e

\* _call_model with completion_cost called in the outer try block only
_call_model_cost_in_try(model_key, prompt, max_tokens, temperature, out) ==
    LET model_id == get_model_id(model_key)
        model_name == get_model_name(model_key)
    IN  IF model_id.raised THEN model_id
        ELSE IF out.ok /\ out.cost # None
        THEN Return([success |-> TRUE, content |-> out.content,
                     model_used |-> model_id.value, usage |-> out.usage,
                     cost |-> out.cost])
        ELSE Return([success |-> FALSE,
                     error |-> <<model_name, " failed: ", "cost unavailable">>])

\* _call_model, given what the try block meets.  get_model_id is called
\* before the try statement, so its ValueError is not caught here.
_call_model(model_key, prompt, max_tokens, temperature, out) ==
    LET model_id == get_model_id(model_key)
        model_name == get_model_name(model_key)
    IN  IF model_id.raised THEN model_id
        ELSE IF out.ok
        THEN Return([success |-> TRUE, content |-> out.content,
                     model_used |-> model_id.value, usage |-> out.usage,
                     cost |-> out.cost])
        ELSE Return([success |-> FALSE, error |-> error_msg(model_name, out.msg)])

\* the completion() call as the adapter sees it
AdapterCallDefaults(model_id, prompt, max_tokens, temperature, out) ==
    [model |-> model_id, prompt |-> prompt, max_tokens |-> DEFAULT_MAX_TOKENS,
     temperature |-> DEFAULT_TEMPERATURE, out |-> out]
AdapterCall(model_id, prompt, max_tokens, temperature, out) ==
    [model |-> model_id, prompt |-> prompt, max_tokens |-> max_tokens,
     temperature |-> temperature, out |-> out]

\* attempts = []
NewAttempts(atts, c) == [atts EXCEPT ![c] = <<>>]

\* attempts.append(record): the list is a local of the call
AppendAttemptShared(atts, c, rec) == [d \in DOMAIN atts |-> Append(atts[d], rec)]
AppendAttemptFront(atts, c, rec) == [atts EXCEPT ![c] = <<rec>> \o @]
AppendAttempt(atts, c, rec) == [atts EXCEPT ![c] = Append(@, rec)]

\* the dict appended to attempts
AttemptRecordAlwaysFailed(model_key, model_name, res) ==
    [model |-> model_key, name |-> model_name,
     status |-> "failed",
     error |-> DictGet(res, "error", <<>>)]
AttemptRecord(model_key, model_name, res) ==
    [model |-> model_key, name |-> model_name,
     status |-> IF res.success THEN "success" ELSE "failed",
     error |-> DictGet(res, "error", <<>>)]

\* if result['success']: return ...
ReturnsNever(res) == FALSE
ReturnsNow(res) == res.success

\* the SimpleResponse of a success
SuccessResponseProviderId(res, model_key, atts) ==
    SimpleResponse(TRUE, Some(res.content), Some(res.model_used),
                   DictGet(res, "cost", None), Some(res.usage), None, Some(atts))
SuccessResponse(res, model_key, atts) ==
    SimpleResponse(TRUE, Some(res.content), Some(model_key),
                   DictGet(res, "cost", None), Some(res.usage), None, Some(atts))

\* f"All {len(payload.models)} models failed"
AllFailedMsg(n) == <<"All ", n, " models failed">>

\* the SimpleResponse of exhaustion
FailureResponseOffByOne(p, atts) ==
    SimpleResponse(FALSE, None, None, None, None,
                   Some(AllFailedMsg(Len(p.models) - 1)), Some(atts))
FailureResponse(p, atts) ==
    SimpleResponse(FALSE, None, None, None, None,
                   Some(AllFailedMsg(Len(p.models))), Some(atts))

----------------------------------------------------------------------------
(* SimpleLLMHandler.process, one action per step of the call *)

ModelKeys == {"claude-3-haiku", "gpt-4o", "no-such-model"}
Prompts == {"X"}

SeqsUpTo(S, n) == UNION {[1..k -> S] : k \in 0..n}

\* the payloads a caller can hand to process: the dataclass accepts any list
EnginePayloads(n) ==
    {EventPayload(p, m, DEFAULT_MAX_TOKENS, DEFAULT_TEMPERATURE, None) :
        p \in Prompts, m \in SeqsUpTo(ModelKeys, n)}

\* the same, with every field of the request varied
EnginePrompts == {"X", "Y"}
EngineMaxTokens == {1, DEFAULT_MAX_TOKENS}
EngineTemperatures == {0, DEFAULT_TEMPERATURE}
EngineRequestIds == {None, Some("req-1")}
VariedPayloads(n) ==
    {EventPayload(p, m, mt, t, r) :
        p \in EnginePrompts, m \in SeqsUpTo(ModelKeys, n),
        mt \in EngineMaxTokens, t \in EngineTemperatures, r \in EngineRequestIds}

ConcOutcomes ==
    {o \in AdapterOutcomes :
        IF o.ok THEN o.content = "OK" /\ o.cost = None ELSE o.msg # <<>>}

\* process(payload) is entered: attempts = [] and the loop starts
process_begin(c, P) ==
    /\ pc[c] = "idle"
    /\ \E p \in P : payload' = [payload EXCEPT ![c] = p]
    /\ attempts' = NewAttempts(attempts, c)
    /\ i' = [i EXCEPT ![c] = 0]
    /\ pc' = [pc EXCEPT ![c] = "loop"]
    /\ UNCHANGED <<result, response, exception, adapterLog>>

\* one iteration up to the return of self._call_model(...)
call_model(c, Outs) ==
    /\ pc[c] = "loop"
    /\ i[c] < Len(payload[c].models)
    /\ \E out \in Outs :
        LET p == payload[c]
            model_key == p.models[i[c] + 1]
            r == _call_model(model_key, p.prompt, p.max_tokens, p.temperature, out)
        IN  IF r.raised
            THEN /\ exception' = [exception EXCEPT ![c] = Some(r)]
                 /\ pc' = [pc EXCEPT ![c] = "raised"]
                 /\ UNCHANGED <<result, adapterLog>>
            ELSE /\ result' = [result EXCEPT ![c] = r.value]
                 /\ adapterLog' = [adapterLog EXCEPT ![c] =
                        Append(@, AdapterCall(get_model_id(model_key).value, p.prompt,
                                              p.max_tokens, p.temperature, out))]
                 /\ pc' = [pc EXCEPT ![c] = "called"]
                 /\ UNCHANGED exception
    /\ UNCHANGED <<payload, i, attempts, response>>

\* the rest of the iteration: attempts.append(...) and the test of result['success']
record_attempt_retrying(c) ==
    /\ pc[c] = "called"
    /\ LET model_key == payload[c].models[i[c] + 1]
           model_name == get_model_name(model_key)
           res == result[c]
           atts == AppendAttempt(attempts, c, AttemptRecord(model_key, model_name, res))
       IN  /\ attempts' = atts
           /\ IF ReturnsNow(res)
              THEN /\ response' = [response EXCEPT ![c] =
                          Some(SuccessResponse(res, model_key, atts[c]))]
                   /\ pc' = [pc EXCEPT ![c] = "returned"]
              ELSE /\ pc' = [pc EXCEPT ![c] = "loop"]
                   /\ UNCHANGED response
    /\ UNCHANGED <<payload, i, result, exception, adapterLog>>
record_attempt(c) ==
    /\ pc[c] = "called"
    /\ LET model_key == payload[c].models[i[c] + 1]
           model_name == get_model_name(model_key)
           res == result[c]
           atts == AppendAttempt(attempts, c, AttemptRecord(model_key, model_name, res))
       IN  /\ attempts' = atts
           /\ IF ReturnsNow(res)
              THEN /\ response' = [response EXCEPT ![c] =
                          Some(SuccessResponse(res, model_key, atts[c]))]
                   /\ pc' = [pc EXCEPT ![c] = "returned"]
                   /\ UNCHANGED i
              ELSE /\ i' = [i EXCEPT ![c] = @ + 1]
                   /\ pc' = [pc EXCEPT ![c] = "loop"]
                   /\ UNCHANGED response
    /\ UNCHANGED <<payload, result, exception, adapterLog>>

\* the loop ends without a return: "All N models failed"
all_failed(c) ==
    /\ pc[c] = "loop"
    /\ i[c] = Len(payload[c].models)
    /\ response' = [response EXCEPT ![c] = Some(FailureResponse(payload[c], attempts[c]))]
    /\ pc' = [pc EXCEPT ![c] = "returned"]
    /\ UNCHANGED <<payload, i, attempts, result, exception, adapterLog>>

EngineInit ==
    /\ pc = [c \in Calls |-> "idle"]
    /\ payload = [c \in Calls |-> None]
    /\ i = [c \in Calls |-> 0]
    /\ attempts = [c \in Calls |-> <<>>]
    /\ result = [c \in Calls |-> None]
    /\ response = [c \in Calls |-> None]
    /\ exception = [c \in Calls |-> None]
    /\ adapterLog = [c \in Calls |-> <<>>]

PayloadInit ==
    /\ stage = "start"
    /\ made_by = "nothing"
    /\ obj = None
    /\ wire = None
    /\ back = None
    /\ props = None

RegistryInit ==
    /\ registry = [ids |-> AVAILABLE_MODELS, names |-> MODEL_NAMES]
    /\ lookups = <<>>

BedrockInit ==
    /\ gpc = "idle"
    /\ gargs = None
    /\ gcalls = <<>>
    /\ gerror = None
    /\ gnote = None
    /\ gresult = None

ExampleInit ==
    /\ lists = LoadedLists
    /\ examples = LoadedExamples
    /\ handed = <<>>
    /\ changes = <<>>

Init == EngineInit /\ PayloadInit /\ RegistryInit /\ BedrockInit /\ ExampleInit

\* one process call
Next ==
    \/ process_begin(1, VariedPayloads(MaxModels)) /\ UNCHANGED notEngineVars
    \/ call_model(1, AdapterOutcomes) /\ UNCHANGED notEngineVars
    \/ record_attempt(1) /\ UNCHANGED notEngineVars
    \/ all_failed(1) /\ UNCHANGED notEngineVars

Spec == Init /\ [][Next]_vars

\* process calls of several threads on one handler, interleaved at the steps
NextConc ==
    \E c \in Calls :
        \/ process_begin(c, EnginePayloads(MaxConcModels)) /\ UNCHANGED notEngineVars
        \/ call_model(c, ConcOutcomes) /\ UNCHANGED notEngineVars
        \/ record_attempt(c) /\ UNCHANGED notEngineVars
        \/ all_failed(c) /\ UNCHANGED notEngineVars

SpecConc == Init /\ [][NextConc]_vars

----------------------------------------------------------------------------
(* The life of a payload: built, written out, read back *)

PayloadKeys == {"claude-3-haiku", "gpt-4o"}
PayloadPrompts == {"X", "null"}
MaxTokensValues == {1, DEFAULT_MAX_TOKENS}
Temperatures == {0, DEFAULT_TEMPERATURE, 20}
RequestIds == {None, Some("req-1")}

\* what the constructor accepts: any models list, the empty one included
Payloads ==
    {EventPayload(p, m, mt, t, r) :
        p \in PayloadPrompts, m \in SeqsUpTo(PayloadKeys, MaxPayloadModels),
        mt \in MaxTokensValues, t \in Temperatures, r \in RequestIds}

KwargsValues ==
    { [k \in {} |-> 0],
      ("max_tokens" :> 1),
      ("max_tokens" :> 1) @@ ("temperature" :> 20) @@ ("request_id" :> Some("req-1")) }

Restrict(d, K) == [k \in DOMAIN d \cap K |-> d[k]]

\* dicts that reach from_dict from outside: every field, only the required
\* ones, models missing, and a key that is no field
ExternalDicts ==
    LET full == {to_dict(EventPayload("X", m, 1, 20, Some("req-1"))) :
                     m \in SeqsUpTo(PayloadKeys, MaxPayloadModels)}
    IN  full
        \cup {Restrict(d, {"prompt", "models"}) : d \in full}
        \cup {Restrict(d, {"prompt", "max_tokens"}) : d \in full}
        \cup {d @@ ("extra" :> PyInt(1)) : d \in full}

\* JSON texts that reach from_json from outside: those dicts written out, and
\* a text that is cut off
ExternalTexts == {json_dumps(d) : d \in ExternalDicts} \cup {<<Punct("{")>>}

\* EventPayload(prompt, models, max_tokens, temperature, request_id)
construct ==
    /\ stage = "start"
    /\ \E p \in Payloads : obj' = Some(p)
    /\ made_by' = "constructor"
    /\ stage' = "built"
    /\ UNCHANGED <<wire, back, props>>

\* create_payload(prompt, models, **kwargs)
do_create_payload ==
    /\ stage = "start"
    /\ \E p \in PayloadPrompts, m \in SeqsUpTo(PayloadKeys, MaxPayloadModels),
          kw \in KwargsValues : obj' = Some(create_payload(p, m, kw))
    /\ made_by' = "create_payload"
    /\ stage' = "built"
    /\ UNCHANGED <<wire, back, props>>

\* a dict arrives from outside
receive_dict ==
    /\ stage = "start"
    /\ \E d \in ExternalDicts : wire' = Some([kind |-> "dict", v |-> d])
    /\ stage' = "in hand"
    /\ UNCHANGED <<made_by, obj, back, props>>

\* a JSON text arrives from outside
receive_json ==
    /\ stage = "start"
    /\ \E x \in ExternalTexts : wire' = Some([kind |-> "json", v |-> x])
    /\ stage' = "in hand"
    /\ UNCHANGED <<made_by, obj, back, props>>

\* obj.to_dict()
do_to_dict ==
    /\ stage = "built"
    /\ wire' = Some([kind |-> "dict", v |-> to_dict(obj[1])])
    /\ stage' = "in hand"
    /\ UNCHANGED <<made_by, obj, back, props>>

\* obj.to_json()
do_to_json ==
    /\ stage = "built"
    /\ wire' = Some([kind |-> "json", v |-> to_json(obj[1])])
    /\ stage' = "in hand"
    /\ UNCHANGED <<made_by, obj, back, props>>

\* EventPayload.from_dict(wire)
do_from_dict ==
    /\ stage = "in hand"
    /\ wire[1].kind = "dict"
    /\ back' = Some(from_dict(wire[1].v))
    /\ stage' = "read"
    /\ UNCHANGED <<made_by, obj, wire, props>>

\* EventPayload.from_json(wire)
do_from_json ==
    /\ stage = "in hand"
    /\ wire[1].kind = "json"
    /\ back' = Some(from_json(wire[1].v))
    /\ stage' = "read"
    /\ UNCHANGED <<made_by, obj, wire, props>>

\* obj.primary_model and obj.fallback_models are read
read_properties ==
    /\ stage = "built"
    /\ props = None
    /\ props' = Some([primary_model |-> primary_model(obj[1]),
                      fallback_models |-> fallback_models(obj[1])])
    /\ UNCHANGED <<stage, made_by, obj, wire, back>>

NextPayload ==
    \/ read_properties /\ UNCHANGED notPayloadVars
    \/ construct /\ UNCHANGED notPayloadVars
    \/ do_create_payload /\ UNCHANGED notPayloadVars
    \/ receive_dict /\ UNCHANGED notPayloadVars
    \/ receive_json /\ UNCHANGED notPayloadVars
    \/ do_to_dict /\ UNCHANGED notPayloadVars
    \/ do_to_json /\ UNCHANGED notPayloadVars
    \/ do_from_dict /\ UNCHANGED notPayloadVars
    \/ do_from_json /\ UNCHANGED notPayloadVars

SpecPayload == Init /\ [][NextPayload]_vars

\* the payloads that exist: the one built, and the one read back
ExistingPayloads ==
    (IF obj = None THEN {} ELSE {obj[1]})
        \cup (IF back = None \/ back[1].raised THEN {} ELSE {back[1].value})

\* C6: every EventPayload that exists, however it was built, has at least one
\* entry in models.
C6_ModelsNonEmpty == \A p \in ExistingPayloads : Len(p.models) >= 1

\* C10: a payload written by to_dict or to_json and read back by from_dict or
\* from_json equals the payload written: prompt, models (same order),
\* max_tokens, temperature and request_id are all preserved.
C10_RoundTrip ==
    (stage = "read" /\ obj # None) =>
        /\ back[1] = Return(obj[1])
        /\ back[1].value.prompt = obj[1].prompt
        /\ back[1].value.models = obj[1].models
        /\ back[1].value.max_tokens = obj[1].max_tokens
        /\ back[1].value.temperature = obj[1].temperature
        /\ back[1].value.request_id = obj[1].request_id

\* a payload with two models, a request id and a fractional temperature went
\* through JSON text
C10_Witness ==
    /\ stage = "read" /\ obj # None
    /\ wire[1].kind = "json"
    /\ Len(obj[1].models) = 2 /\ obj[1].models[1] # obj[1].models[2]
    /\ obj[1].request_id # None
    /\ obj[1].temperature = DEFAULT_TEMPERATURE
    /\ ~back[1].raised

\* the same through a dict
C10_WitnessDict ==
    /\ stage = "read" /\ obj # None
    /\ wire[1].kind = "dict"
    /\ obj[1].request_id # None
    /\ ~back[1].raised

C11_WitnessSingle ==
    /\ props # None
    /\ Len(obj[1].models) = 1
    /\ props[1].fallback_models = <<>>

----------------------------------------------------------------------------
(* The registry in use: lookups by any caller *)

\* most lookups of one run that are followed
MaxLookups == 2

\* the keys looked up: those of the registry, and keys it does not hold
AbsentKeys == {"no-such-model", "", "GPT-4o"}
LookupKeys == DOMAIN AVAILABLE_MODELS \cup AbsentKeys

\* get_model_id(key) is called; it reads AVAILABLE_MODELS and assigns nothing
lookup_model_id_caching ==
    /\ Len(lookups) < MaxLookups
    /\ \E key \in LookupKeys :
          /\ lookups' = Append(lookups, [fn |-> "get_model_id", key |-> key,
                                        result |-> get_model_id(key)])
          /\ registry' = [registry EXCEPT !.ids = (key :> key) @@ @]
lookup_model_id ==
    /\ Len(lookups) < MaxLookups
    /\ \E key \in LookupKeys :
          lookups' = Append(lookups, [fn |-> "get_model_id", key |-> key,
                                      result |-> get_model_id(key)])
    /\ UNCHANGED registry

\* get_model_name(key) is called; it reads MODEL_NAMES and assigns nothing
lookup_model_name ==
    /\ Len(lookups) < MaxLookups
    /\ \E key \in LookupKeys :
          lookups' = Append(lookups, [fn |-> "get_model_name", key |-> key,
                                      result |-> get_model_name(key)])
    /\ UNCHANGED registry

NextRegistry ==
    \/ lookup_model_id /\ UNCHANGED notRegistryVars
    \/ lookup_model_name /\ UNCHANGED notRegistryVars

SpecRegistry == Init /\ [][NextRegistry]_vars

\* the registry as the source file writes it
RegistryAsWritten ==
    /\ DOMAIN registry.ids = DOMAIN AVAILABLE_MODELS
    /\ \A k \in DOMAIN registry.ids : registry.ids[k] = AVAILABLE_MODELS[k]
    /\ DOMAIN registry.names = DOMAIN MODEL_NAMES
    /\ \A k \in DOMAIN registry.names : registry.names[k] = MODEL_NAMES[k]

\* C13: get_model_id(key) returns the registered provider id for every key of
\* AVAILABLE_MODELS and raises an unknown-model error naming the key for
\* every key that is absent; it returns no value for an absent key and does
\* not modify the registry.
C13_GetModelId ==
    /\ RegistryAsWritten
    /\ \A n \in 1..Len(lookups) :
          lookups[n].fn = "get_model_id" =>
              LET key == lookups[n].key
                  r == lookups[n].result
              IN  IF key \in DOMAIN registry.ids
                  THEN ~r.raised /\ r.value = registry.ids[key]
                  ELSE /\ r.raised
                       /\ r.type = "ValueError"
                       /\ r.msg[1] = "Unknown model: "
                       /\ r.msg[2] = key

\* a registered key and then an absent key were looked up
C13_Witness ==
    /\ Len(lookups) = 2
    /\ lookups[1].fn = "get_model_id" /\ lookups[1].key = "claude-3-haiku"
    /\ lookups[1].result = Return("claude-3-haiku-20240307")
    /\ lookups[2].fn = "get_model_id" /\ lookups[2].key = "no-such-model"
    /\ lookups[2].result.raised

\* C14: get_model_name(key) never fails: it returns the registered display
\* name when there is one and the key itself otherwise.
C14_GetModelName ==
    \A n \in 1..Len(lookups) :
        lookups[n].fn = "get_model_name" =>
            LET key == lookups[n].key
                r == lookups[n].result
            IN  /\ key \in DOMAIN registry.names => r = registry.names[key]
                /\ key \notin DOMAIN registry.names => r = key
                /\ key \notin DOMAIN registry.ids => r = key

\* the name of a registered key and of an absent key were asked for
C14_Witness ==
    /\ Len(lookups) = 2
    /\ lookups[1].fn = "get_model_name" /\ lookups[1].key = "gpt-4o-mini"
    /\ lookups[1].result = "GPT-4o Mini"
    /\ lookups[2].fn = "get_model_name" /\ lookups[2].key = "no-such-model"
    /\ lookups[2].result = "no-such-model"

----------------------------------------------------------------------------
(* bedrock-fallback.py *)

ClaudeResponse(content, model_used, source, usage) ==
    [content |-> content, model_used |-> model_used, source |-> source,
     usage |-> usage]

GContents == {"OK", "Hi"}
Bodies == {"slow down", "HTTP 429 from proxy"}

\* What self.session.post(...) and the reading of its response can meet: a
\* response with a status and a body (for 200 the text of the answer), a 200
\* whose body has no 'content', or a requests RequestException.
AnthropicOutcomes ==
    [kind : {"response"}, status : {"200"}, body : GContents]
        \cup [kind : {"response"}, status : {"429", "500", "401"}, body : Bodies]
        \cup [kind : {"bad_body"}, status : {"200"}, body : {"{}"}]
        \cup [kind : {"request_exception"}, status : {"-"}, body : {"timed out"}]

\* What bedrock_client.invoke_model(...) and the reading of its response can meet
BedrockOutcomes ==
    [ok : {TRUE}, content : GContents]
        \cup [ok : {FALSE}, msg : {<<"AccessDeniedException">>, <<"ThrottlingException">>}]

\* call_anthropic_direct, given what the request meets.  The exceptions raised
\* in the try block are plain Exception and pass the except clause, which
\* catches RequestException only.
call_anthropic_direct(prompt, max_tokens, out) ==
    IF out.kind = "request_exception"
    THEN Raise("Exception", <<"Request failed: ", out.body>>)
    ELSE IF out.status = "200"
    THEN IF out.kind = "bad_body"
         THEN Raise("KeyError", <<"'content'">>)
         ELSE Return(ClaudeResponse(out.body, "claude-3-5-sonnet-20241022",
                                    "anthropic", "usage-a"))
    ELSE IF out.status = "429"
    THEN Raise("Exception", <<"Throttled: ", out.body>>)
    ELSE Raise("Exception", <<"API Error ", out.status, ": ", out.body>>)

\* call_bedrock_fallback, given what the request meets
call_bedrock_fallback(prompt, max_tokens, out) ==
    IF out.ok
    THEN Return(ClaudeResponse(out.content,
                               "us.anthropic.claude-3-5-sonnet-20241022-v2:0",
                               "bedrock", "usage-a"))
    ELSE Raise("Exception", <<"Bedrock fallback failed: ">> \o out.msg)

\* the pieces of text in which "429" or (in lower case) "throttl" occurs
ThrottlePieces == {"Throttled: ", "429", "HTTP 429 from proxy", "ThrottlingException"}

\* "429" in str(anthropic_error) or "throttl" in str(anthropic_error).lower()
IsThrottling(msg) == \E k \in DOMAIN msg : msg[k] \in ThrottlePieces

\* f"Both services failed. Anthropic: {anthropic_error}. Bedrock: {bedrock_error}"
BothFailedMsgBedrockOnly(anthropic_error, bedrock_error) ==
    <<"Both services failed. Bedrock: ">> \o bedrock_error
BothFailedMsg(anthropic_error, bedrock_error) ==
    <<"Both services failed. Anthropic: ">> \o anthropic_error
        \o <<". Bedrock: ">> \o bedrock_error

\* a call of one of the two services, as the service sees it, with what came back
ServiceCall(service, prompt, max_tokens, out, ret) ==
    [service |-> service, prompt |-> prompt, max_tokens |-> max_tokens,
     out |-> out, ret |-> ret]

GPrompts == {"X", "Y"}
GMaxTokens == {100, DEFAULT_MAX_TOKENS}

\* generate_response(prompt, max_tokens) is entered
generate_begin ==
    /\ gpc = "idle"
    /\ \E p \in GPrompts, mt \in GMaxTokens :
          gargs' = Some([prompt |-> p, max_tokens |-> mt])
    /\ gpc' = "anthropic"
    /\ UNCHANGED <<gcalls, gerror, gnote, gresult>>

\* return self.call_anthropic_direct(prompt, max_tokens), or its exception is caught
anthropic_call ==
    /\ gpc = "anthropic"
    /\ \E out \in AnthropicOutcomes :
        LET r == call_anthropic_direct(gargs[1].prompt, gargs[1].max_tokens, out)
        IN  /\ gcalls' = Append(gcalls, ServiceCall("anthropic", gargs[1].prompt,
                                                   gargs[1].max_tokens, out, r))
            /\ IF r.raised
               THEN /\ gerror' = Some(r.msg)
                    /\ gpc' = "except"
                    /\ UNCHANGED gresult
               ELSE /\ gresult' = Some(r)
                    /\ gpc' = "returned"
                    /\ UNCHANGED gerror
    /\ UNCHANGED <<gargs, gnote>>

\* the except clause up to the fallback: the error is classified for the log only
switch_to_bedrock_on_throttling_only ==
    /\ gpc = "except"
    /\ gnote' = Some(IF IsThrottling(gerror[1]) THEN "throttling" ELSE "failure")
    /\ IF IsThrottling(gerror[1])
       THEN gpc' = "bedrock" /\ UNCHANGED gresult
       ELSE gpc' = "raised" /\ gresult' = Some(Raise("Exception", gerror[1]))
    /\ UNCHANGED <<gargs, gcalls, gerror>>
switch_to_bedrock ==
    /\ gpc = "except"
    /\ gnote' = Some(IF IsThrottling(gerror[1]) THEN "throttling" ELSE "failure")
    /\ gpc' = "bedrock"
    /\ UNCHANGED <<gargs, gcalls, gerror, gresult>>

\* return self.call_bedrock_fallback(prompt, max_tokens), or both have failed
bedrock_call ==
    /\ gpc = "bedrock"
    /\ \E out \in BedrockOutcomes :
        LET r == call_bedrock_fallback(gargs[1].prompt, gargs[1].max_tokens, out)
        IN  /\ gcalls' = Append(gcalls, ServiceCall("bedrock", gargs[1].prompt,
                                                   gargs[1].max_tokens, out, r))
            /\ IF r.raised
               THEN /\ gresult' = Some(Raise("Exception", BothFailedMsg(gerror[1], r.msg)))
                    /\ gpc' = "raised"
               ELSE /\ gresult' = Some(r)
                    /\ gpc' = "returned"
    /\ UNCHANGED <<gargs, gerror, gnote>>

NextBedrock ==
    \/ generate_begin /\ UNCHANGED notBedrockVars
    \/ anthropic_call /\ UNCHANGED notBedrockVars
    \/ switch_to_bedrock /\ UNCHANGED notBedrockVars
    \/ bedrock_call /\ UNCHANGED notBedrockVars

SpecBedrock == Init /\ [][NextBedrock]_vars

\* sub occurs in s as a run of consecutive pieces
ContainsSeq(s, sub) ==
    \E k \in 0..(Len(s) - Len(sub)) : \A n \in 1..Len(sub) : s[k + n] = sub[n]

\* C12: generate_response calls Anthropic first and Bedrock only after the
\* Anthropic call of the same request failed, at most once.  Anthropic
\* succeeds: its response is returned, Bedrock is not called.  Anthropic fails
\* and Bedrock succeeds: the Bedrock response (source 'bedrock') is returned.
\* Both fail: an exception carrying both error messages is raised.
C12_AnthropicThenBedrock ==
    /\ Len(gcalls) <= 2
    /\ Len(gcalls) >= 1 => gcalls[1].service = "anthropic"
    /\ Len(gcalls) = 2 =>
          /\ gcalls[2].service = "bedrock"
          /\ gcalls[1].ret.raised
          /\ gcalls[2].prompt = gcalls[1].prompt
          /\ gcalls[2].max_tokens = gcalls[1].max_tokens
    /\ gpc \in {"returned", "raised"} =>
          IF ~gcalls[1].ret.raised
          THEN /\ Len(gcalls) = 1
               /\ gresult = Some(gcalls[1].ret)
               /\ gresult[1].value.source = "anthropic"
          ELSE /\ Len(gcalls) = 2
               /\ IF ~gcalls[2].ret.raised
                  THEN /\ gresult = Some(gcalls[2].ret)
                       /\ gresult[1].value.source = "bedrock"
                       /\ gpc = "returned"
                  ELSE /\ gpc = "raised"
                       /\ gresult[1].raised
                       /\ ContainsSeq(gresult[1].msg, gcalls[1].ret.msg)
                       /\ ContainsSeq(gresult[1].msg, gcalls[2].ret.msg)

\* Anthropic failed with an error that is no throttling, Bedrock answered
C12_Witness ==
    /\ gpc = "returned"
    /\ Len(gcalls) = 2
    /\ gnote = Some("failure")
    /\ gresult[1].value.source = "bedrock"

\* both services failed
C12_WitnessBothFailed ==
    /\ gpc = "raised"
    /\ Len(gcalls) = 2
    /\ gresult[1].raised

\* Anthropic answered
C12_WitnessAnthropic ==
    /\ gpc = "returned"
    /\ Len(gcalls) = 1
    /\ gresult[1].value.source = "anthropic"

----------------------------------------------------------------------------
(* The two scripts, one run after the other: a process call, then a         *)
(* generate_response call                                                   *)

ProcessAtRest == pc[1] \in {"idle", "returned", "raised"}

NextEither ==
    \/ gpc = "idle" /\ process_begin(1, EnginePayloads(MaxModels))
            /\ UNCHANGED notEngineVars
    \/ gpc = "idle" /\ call_model(1, AdapterOutcomes) /\ UNCHANGED notEngineVars
    \/ gpc = "idle" /\ record_attempt(1) /\ UNCHANGED notEngineVars
    \/ gpc = "idle" /\ all_failed(1) /\ UNCHANGED notEngineVars
    \/ ProcessAtRest /\ generate_begin /\ UNCHANGED notBedrockVars
    \/ ProcessAtRest /\ anthropic_call /\ UNCHANGED notBedrockVars
    \/ ProcessAtRest /\ switch_to_bedrock /\ UNCHANGED notBedrockVars
    \/ ProcessAtRest /\ bedrock_call /\ UNCHANGED notBedrockVars

SpecEither == Init /\ [][NextEither]_vars

\* C15: the kind of failure never changes control flow.  In process a failed
\* attempt, whatever its error, is followed by the attempt on the next model
\* of the list, or by exhaustion after the last one.  In generate_response an
\* Anthropic failure is followed by the one Bedrock call with the same
\* arguments, whether or not the error counts as throttling.
C15_FailureKindIrrelevant ==
    [][ /\ \A c \in Calls :
              (pc[c] = "called" /\ ~result[c].success /\ pc'[c] # pc[c]) =>
                  /\ pc'[c] = "loop"
                  /\ i'[c] = i[c] + 1
                  /\ Len(attempts'[c]) = Len(attempts[c]) + 1
                  /\ attempts'[c][Len(attempts'[c])].status = "failed"
        /\ \A c \in Calls :
              (pc[c] = "loop" /\ i[c] > 0 /\ pc'[c] # pc[c]) =>
                  IF i[c] < Len(payload[c].models)
                  THEN /\ pc'[c] \in {"called", "raised"}
                       /\ pc'[c] = "called" =>
                            /\ Len(adapterLog'[c]) = Len(adapterLog[c]) + 1
                            /\ adapterLog'[c][Len(adapterLog'[c])].model
                                 = AVAILABLE_MODELS[payload[c].models[i[c] + 1]]
                  ELSE /\ pc'[c] = "returned"
                       /\ ~response'[c][1].success
        /\ (gpc = "except" /\ gpc' # gpc) =>
              /\ gpc' = "bedrock"
              /\ gcalls' = gcalls
        /\ (gpc = "bedrock" /\ gpc' # gpc) =>
              /\ Len(gcalls') = 2
              /\ gcalls'[2].service = "bedrock"
              /\ gcalls'[2].prompt = gargs[1].prompt
              /\ gcalls'[2].max_tokens = gargs[1].max_tokens
      ]_vars

\* a process call went on after a throttling failure and after a timeout, and
\* a generate_response call reached Bedrock after an error that is no throttling
C15_Witness ==
    /\ Len(attempts[1]) = 3
    /\ adapterLog[1][1].out = [ok |-> FALSE, msg |-> <<"429 Too Many Requests">>]
    /\ adapterLog[1][2].out = [ok |-> FALSE, msg |-> <<"timeout">>]
    /\ Len(gcalls) = 2
    /\ gnote = Some("failure")

\* a generate_response call reached Bedrock after a throttling error
C15_WitnessThrottled ==
    /\ Len(gcalls) = 2
    /\ gnote = Some("throttling")

----------------------------------------------------------------------------
(* The example payloads in use: callers fetch them and change their models *)

\* get_example_payload calls made
MaxExampleCalls == 2
\* changes made to the models lists of the payloads returned
MaxListChanges == 2

Strategies == DOMAIN EXAMPLE_PAYLOADS \cup {"no-such-strategy"}
ExamplePrompts == {"X"}
AppendedKeys == {"gemini-1-5-pro"}

\* the payloads returned so far
Returned == {k \in DOMAIN handed : ~handed[k].raised}

\* payload.models of the k-th call's payload, and of a catalog entry, as a
\* reader of the list finds it
ModelsOfReturned(k) == lists[handed[k].value.models.list]
ModelsOfExample(s) == lists[examples[s].models.list]

\* a caller calls get_example_payload(strategy, prompt)
do_get_example_payload ==
    /\ Len(handed) < MaxExampleCalls
    /\ \E strategy \in Strategies, prompt \in ExamplePrompts :
          handed' = Append(handed, get_example_payload(strategy, prompt, examples))
    /\ UNCHANGED <<lists, examples, changes>>

\* the holder of the k-th payload runs payload.models.append(key)
models_append ==
    /\ Len(changes) < MaxListChanges
    /\ \E k \in Returned, key \in AppendedKeys :
          /\ lists' = list_append(lists, handed[k].value.models, key)
          /\ changes' = Append(changes, [op |-> "append", k |-> k])
    /\ UNCHANGED <<examples, handed>>

\* the holder of the k-th payload runs payload.models.pop() on a non-empty list
models_pop ==
    /\ Len(changes) < MaxListChanges
    /\ \E k \in Returned :
          /\ ModelsOfReturned(k) # <<>>
          /\ lists' = list_pop(lists, handed[k].value.models)
          /\ changes' = Append(changes, [op |-> "pop", k |-> k])
    /\ UNCHANGED <<examples, handed>>

NextExamples ==
    \/ do_get_example_payload /\ UNCHANGED notExampleVars
    \/ models_append /\ UNCHANGED notExampleVars
    \/ models_pop /\ UNCHANGED notExampleVars

SpecExamples == Init /\ [][NextExamples]_vars

\* C21: payloads returned by get_example_payload are independent of the
\* EXAMPLE_PAYLOADS catalog and of each other: no step changes the models of a
\* catalog entry, and a change to the models list of one returned payload
\* leaves the models of every other returned payload unchanged.
C21_ExamplesIndependent ==
    [][/\ \A s \in DOMAIN examples :
             lists'[examples'[s].models.list] = ModelsOfExample(s)
       /\ Len(changes') > Len(changes) =>
             \A j \in Returned :
                 j # changes'[Len(changes')].k =>
                     lists'[handed'[j].value.models.list] = ModelsOfReturned(j)]_vars

\* What holds of the code in place of C21: the calls themselves change no
\* list, and a change reaches only the catalog entry of the payload's own
\* strategy and the payloads fetched for that same strategy.
C21_SharedWithinStrategy ==
    [][/\ Len(changes') = Len(changes) => lists' = lists
       /\ Len(changes') > Len(changes) =>
             LET own == handed[changes'[Len(changes')].k].value.models.list
             IN  \A s \in DOMAIN lists : s # own => lists'[s] = lists[s]]_vars

\* every returned payload holds the list object of its catalog entry
C21_ReturnedListIsCatalogList ==
    \A k \in Returned :
        \E s \in DOMAIN examples : handed[k].value.models = examples[s].models

----------------------------------------------------------------------------
(* Vocabulary of the claims about process *)

Known(model_key) == model_key \in DOMAIN AVAILABLE_MODELS

Started(c) == pc[c] # "idle"

\* the adapter calls of call c so far were: k failures, then one success
FailedThenSucceeded(c, k) ==
    /\ Len(adapterLog[c]) = k + 1
    /\ \A n \in 1..k : ~adapterLog[c][n].out.ok
    /\ adapterLog[c][k + 1].out.ok

\* an adapter call was made for every model of the list, and each failed
EveryModelFailed(c) ==
    /\ Len(adapterLog[c]) = Len(payload[c].models)
    /\ \A n \in 1..Len(adapterLog[c]) : ~adapterLog[c][n].out.ok

IsPrefix(s, t) == Len(s) <= Len(t) /\ \A n \in 1..Len(s) : s[n] = t[n]

----------------------------------------------------------------------------
\* C1: when the adapter calls for models[0..k-1] failed and the call for
\* models[k] succeeded, process returns success = True, model_used = models[k]
\* (the key), the content, usage and cost of the successful call, and k+1
\* attempts: k with status 'failed', then one with status 'success'.
C1_FirstSuccessResult ==
    \A c \in Calls : \A k \in 0..MaxModels :
        (pc[c] = "returned" /\ FailedThenSucceeded(c, k)) =>
            LET r == response[c][1]
                good == adapterLog[c][k + 1].out
            IN  /\ r.success = TRUE
                /\ r.model_used = Some(payload[c].models[k + 1])
                /\ r.content = Some(good.content)
                /\ r.usage = Some(good.usage)
                /\ r.cost = good.cost
                /\ Len(r.attempts[1]) = k + 1
                /\ \A n \in 1..k : r.attempts[1][n].status = "failed"
                /\ r.attempts[1][k + 1].status = "success"

\* two failures, then a success on a key whose provider id differs from it
C1_Witness ==
    /\ pc[1] = "returned"
    /\ FailedThenSucceeded(1, 2)
    /\ payload[1].models[3] # AVAILABLE_MODELS[payload[1].models[3]]
    /\ response[1][1].success

\* C2: first success short-circuits.  Once an adapter call of a process call
\* has succeeded, the call makes no further adapter call, and it returns the
\* attempts up to and including the successful one.
C2_ShortCircuit ==
    /\ [][\A c \in Calls :
            (\E n \in 1..Len(adapterLog[c]) : adapterLog[c][n].out.ok)
                => adapterLog'[c] = adapterLog[c]]_vars
    /\ [](\A c \in Calls : \A k \in 0..MaxModels :
            (pc[c] = "returned" /\ FailedThenSucceeded(c, k))
                => /\ response[c][1].success
                   /\ response[c][1].attempts = Some(attempts[c])
                   /\ Len(attempts[c]) = k + 1)

\* a success was returned while models of the list were still untried
C2_Witness ==
    /\ pc[1] = "returned"
    /\ response[1][1].success
    /\ Len(adapterLog[1]) = 2
    /\ Len(payload[1].models) = 3

\* C3: when every model's adapter call failed, process returns success = False,
\* one 'failed' attempt per model of the list, and the error
\* "All N models failed" with N the number of models attempted.
C3_AllFailedResult ==
    \A c \in Calls :
        (pc[c] = "returned" /\ EveryModelFailed(c)) =>
            LET r == response[c][1]
            IN  /\ r.success = FALSE
                /\ Len(r.attempts[1]) = Len(payload[c].models)
                /\ \A n \in 1..Len(r.attempts[1]) : r.attempts[1][n].status = "failed"
                /\ r.error = Some(<<"All ", Len(r.attempts[1]), " models failed">>)

\* the single failing model of the example: "All 1 models failed"
C3_Witness ==
    /\ pc[1] = "returned"
    /\ Len(payload[1].models) = 1
    /\ EveryModelFailed(1)
    /\ response[1][1].error = Some(<<"All ", 1, " models failed">>)

\* C4: an unknown model key, at any position of the list, is recorded as a
\* failed attempt without raising, and process goes on to the next entry.
C4_UnknownKeyRecorded ==
    \A c \in Calls : Started(c) =>
        /\ \A n \in 1..Len(payload[c].models) :
              (~Known(payload[c].models[n]) /\ i[c] = n - 1) => pc[c] # "raised"
        /\ \A n \in 1..i[c] :
              ~Known(payload[c].models[n])
                  => /\ n <= Len(attempts[c])
                     /\ attempts[c][n].model = payload[c].models[n]
                     /\ attempts[c][n].status = "failed"

\* C5: no exception escapes process: whatever the registry and the adapter
\* do, the call does not end by raising.
C5_NoExceptionEscapes ==
    \A c \in Calls : pc[c] # "raised" /\ exception[c] = None

\* C16: within one process call progress through the list is strictly
\* monotonic: the index only grows, by one at a time; the n-th adapter call is
\* the one for position n, so no position is tried twice and no failed model
\* is retried; and there is one attempt record per adapter call.
C16_MonotonicProgress ==
    /\ [](\A c \in Calls : Started(c) =>
            /\ i[c] <= Len(payload[c].models)
            /\ Len(adapterLog[c]) <= Len(payload[c].models)
            /\ \A n \in 1..Len(adapterLog[c]) :
                  adapterLog[c][n].model = AVAILABLE_MODELS[payload[c].models[n]]
            /\ Len(adapterLog[c]) =
                  Len(attempts[c]) + (IF pc[c] = "called" THEN 1 ELSE 0)
            /\ pc[c] \in {"loop", "called"} => Len(attempts[c]) = i[c])
    /\ [][\A c \in Calls : Started(c) =>
            /\ i'[c] \in {i[c], i[c] + 1}
            /\ adapterLog'[c] # adapterLog[c] =>
                  /\ Len(adapterLog'[c]) = Len(adapterLog[c]) + 1
                  /\ Len(adapterLog'[c]) = i[c] + 1
                  /\ IsPrefix(adapterLog[c], adapterLog'[c])]_vars

\* the third position was reached after two failures
C16_Witness ==
    /\ pc[1] = "returned"
    /\ i[1] = 2
    /\ Len(adapterLog[1]) = 3
    /\ Len(attempts[1]) = 3

\* C17: every process call terminates by returning: it reaches Succeeded or
\* Exhausted, after at most len(models) adapter calls, and has no other
\* terminal state.  (A state in which the call can take no further step is a
\* state in which it has returned.)
C17_TerminatesByReturning ==
    /\ Started(1) => Len(adapterLog[1]) <= Len(payload[1].models)
    /\ (ENABLED Next) \/ (pc[1] = "returned" /\ response[1] # None)

\* What holds of the code in place of C17: a call that can take no further
\* step has returned, or has raised at a key the registry does not hold.
C17_StopsOnlyAsDescribed ==
    \/ ENABLED Next
    \/ pc[1] = "returned" /\ response[1] # None
    \/ pc[1] = "raised" /\ ~Known(payload[1].models[i[1] + 1])

\* C18: cost is best-effort.  When the provider call succeeds and the cost
\* calculation fails (cost None), the attempt is recorded as a success, the
\* response has success = True and cost None, and no further model is tried.
C18_CostBestEffort ==
    \A c \in Calls : \A n \in 1..Len(adapterLog[c]) :
        (adapterLog[c][n].out.ok /\ adapterLog[c][n].out.cost = None) =>
            /\ n = Len(adapterLog[c])
            /\ pc[c] \in {"called", "returned"}
            /\ pc[c] = "called" => result[c].success /\ result[c].cost = None
            /\ pc[c] = "returned" =>
                  /\ Len(attempts[c]) = n
                  /\ attempts[c][n].status = "success"
                  /\ response[c][1].success
                  /\ response[c][1].cost = None
                  /\ response[c][1].content = Some(adapterLog[c][n].out.content)
                  /\ response[c][1].model_used = Some(payload[c].models[n])

\* a success without cost was returned while a model was still untried
C18_Witness ==
    /\ pc[1] = "returned"
    /\ Len(adapterLog[1]) = 2
    /\ adapterLog[1][2].out.ok
    /\ adapterLog[1][2].out.cost = None
    /\ Len(payload[1].models) = 3
    /\ response[1][1].cost = None

\* C19: process treats the request as immutable: from the entry of the call
\* on, the payload's prompt, models, max_tokens, temperature and request_id
\* never change, and every adapter call of the run received the payload's
\* prompt, max_tokens and temperature.
C19_PayloadUnchanged ==
    /\ [][\A c \in Calls : Started(c) => payload'[c] = payload[c]]_vars
    /\ [](\A c \in Calls : \A n \in 1..Len(adapterLog[c]) :
            /\ adapterLog[c][n].prompt = payload[c].prompt
            /\ adapterLog[c][n].max_tokens = payload[c].max_tokens
            /\ adapterLog[c][n].temperature = payload[c].temperature)

\* an exhausted call of two adapter calls for a request that uses no default
C19_Witness ==
    /\ pc[1] = "returned"
    /\ ~response[1][1].success
    /\ Len(adapterLog[1]) = 2
    /\ payload[1].prompt = "Y"
    /\ payload[1].max_tokens = 1
    /\ payload[1].temperature = 0
    /\ payload[1].request_id = Some("req-1")

\* a successful call for such a request, after one failure
C19_WitnessSuccess ==
    /\ pc[1] = "returned"
    /\ response[1][1].success
    /\ Len(adapterLog[1]) = 2
    /\ payload[1].max_tokens = 1
    /\ payload[1].temperature = 0

\* C20: every SimpleResponse returned by process is internally consistent:
\* success is true exactly when the last attempt record has status "success";
\* no record before the last has status "success"; on success model_used is
\* the last record's model and error is None; on failure content, model_used,
\* usage and cost are None and every record has status "failed" with a
\* non-empty error.
C20_ResponseConsistent ==
    \A c \in Calls : pc[c] = "returned" =>
        LET r == response[c][1]
            atts == r.attempts[1]
            n == Len(atts)
        IN  /\ r.attempts # None
            /\ r.success <=> (n > 0 /\ atts[n].status = "success")
            /\ \A k \in 1..(n - 1) : atts[k].status # "success"
            /\ r.success =>
                  /\ r.model_used = Some(atts[n].model)
                  /\ r.error = None
            /\ ~r.success =>
                  /\ r.content = None
                  /\ r.model_used = None
                  /\ r.usage = None
                  /\ r.cost = None
                  /\ \A k \in 1..n :
                        atts[k].status = "failed" /\ atts[k].error # <<>>

\* an exhausted call whose records include a failure without message text
C20_Witness ==
    /\ pc[1] = "returned"
    /\ ~response[1][1].success
    /\ Len(response[1][1].attempts[1]) = 2
    /\ \E n \in 1..Len(adapterLog[1]) :
          ~adapterLog[1][n].out.ok /\ adapterLog[1][n].out.msg = <<>>

\* a success after two failures
C20_WitnessSuccess ==
    /\ pc[1] = "returned"
    /\ response[1][1].success
    /\ Len(response[1][1].attempts[1]) = 3

\* C7: the attempts list mirrors the models tried so far, in list order, and a
\* record, once appended, is never changed, reordered or removed.
C7_AttemptsMirrorModels ==
    /\ [](\A c \in Calls : Started(c) =>
            /\ Len(attempts[c]) <= Len(payload[c].models)
            /\ \A n \in 1..Len(attempts[c]) :
                  /\ attempts[c][n].model = payload[c].models[n]
                  /\ attempts[c][n].name = get_model_name(payload[c].models[n])
            /\ pc[c] = "loop" => Len(attempts[c]) = i[c]
            /\ pc[c] = "called" => Len(attempts[c]) = i[c]
            /\ (pc[c] = "returned") => response[c][1].attempts = Some(attempts[c]))
    /\ [][\A c \in Calls : Started(c) => IsPrefix(attempts[c], attempts'[c])]_vars

\* three records for three different keys
C7_Witness ==
    /\ Len(attempts[1]) = 3
    /\ attempts[1][1].model # attempts[1][2].model
    /\ attempts[1][2].model # attempts[1][3].model
    /\ pc[1] = "returned"

\* C8 as stated: the error of a failed attempt record is the adapter's
\* message, with nothing added or removed.
C8_ErrorVerbatim ==
    \A c \in Calls : \A n \in 1..Len(attempts[c]) :
        attempts[c][n].status = "failed"
            => attempts[c][n].error = adapterLog[c][n].out.msg

\* C8 as amended: the error of a failed attempt record is the model's display
\* name, then " failed: ", then the adapter's message unchanged; the record of
\* a success has the empty error.
C8_ErrorPrefixed ==
    \A c \in Calls : \A n \in 1..Len(attempts[c]) :
        IF attempts[c][n].status = "failed"
        THEN /\ ~adapterLog[c][n].out.ok
             /\ attempts[c][n].error =
                    <<get_model_name(payload[c].models[n]), " failed: ">>
                        \o adapterLog[c][n].out.msg
        ELSE attempts[c][n].error = <<>>

\* a failed record of an adapter call whose message is not empty
C8_Witness ==
    /\ Len(attempts[1]) >= 1
    /\ attempts[1][1].status = "failed"
    /\ adapterLog[1][1].out.msg = <<"timeout">>

\* C9: interleaved process calls share no mutable state: the attempts of each
\* call are exactly the records of its own adapter calls, in the order of its
\* own payload's models.
C9_CallsIndependent ==
    \A c \in Calls : Started(c) =>
        /\ Len(attempts[c]) = IF pc[c] = "called" THEN Len(adapterLog[c]) - 1
                              ELSE Len(adapterLog[c])
        /\ \A n \in 1..Len(attempts[c]) :
              /\ attempts[c][n].model = payload[c].models[n]
              /\ AVAILABLE_MODELS[attempts[c][n].model] = adapterLog[c][n].model
              /\ (attempts[c][n].status = "success") = adapterLog[c][n].out.ok
        /\ pc[c] = "returned" => response[c][1].attempts = Some(attempts[c])

\* both calls are in flight, each with records, on different model lists
C9_Witness ==
    /\ pc[1] = "called" /\ pc[2] = "called"
    /\ Len(attempts[1]) >= 1 /\ Len(attempts[2]) >= 1
    /\ payload[1].models # payload[2].models

====
